---- MODULE Spec2Model ----
(***************************************************************************)
(* Model of control_loop() in PID_control_NOT-COMPLETE.py: the five-phase  *)
(* temperature-ramp controller, its PID sub-controller, and the per-tick   *)
(* actuation (ramp-rate command, then target-temperature command).         *)
(*                                                                         *)
(* Real quantities are kept exactly, as integers in fixed units:           *)
(*   slopes and errors    1/SLOPE_UNIT AU/min                               *)
(*   PID integral         1/INT_UNIT   AU                                   *)
(*   ramp rates           1/RAMP_UNIT  degC/min                             *)
(*   temperatures         1/TEMP_UNIT  degC                                 *)
(*   absorbance ranges    1/ABS_UNIT   AU                                   *)
(* The units are chosen so that every product and quotient the code forms  *)
(* with CHECK_PERIOD_S/60 = 1/2 and S_REF = 1/300 is an integer.           *)
(*                                                                         *)
(* The readings of a period come from the external sensor, so the          *)
(* statistics that the tick derives from them (the 30 s slope, the 10 min  *)
(* range and slope) are inputs of the tick, drawn from small sets.         *)
(*                                                                         *)
(* Specifications:                                                         *)
(*   Spec       the controller, from the first period on                   *)
(*   FairSpec   the same with a short linear phase, for progress           *)
(*   StartSpec  the process from its launch, sensor discovery included     *)
(*   StoreSpec  the polling loop with the deque of readings and a clock    *)
(*   SlopeSpec  slope_over_window applied to every small sorted store      *)
(***************************************************************************)
EXTENDS Integers, Sequences, FiniteSets, TLC

\* ------------------------------------------------------------------ units
SLOPE_UNIT == 3000
INT_UNIT   == 6000
RAMP_UNIT  == 6000
TEMP_UNIT  == 12000
ABS_UNIT   == 10000

\* ----------------------------------------------------------------- CONFIG
START_TEMP == 45 * TEMP_UNIT
MAX_TEMP   == 100 * TEMP_UNIT
MAX_RAMP   == 10 * RAMP_UNIT
FAST_RAMP  == 2 * RAMP_UNIT
COOL_RAMP  == (-1) * RAMP_UNIT
MIN_RAMP   == (-10) * RAMP_UNIT

CHECK_PERIOD_S   == 30
EXPECTED_MAX_ABS == 1
SWITCH_TIME_HRS  == 5
S_REF == (EXPECTED_MAX_ABS * SLOPE_UNIT) \div (SWITCH_TIME_HRS * 60)

STABILITY_MAX_RANGE_AU == (5 * ABS_UNIT) \div 100
STABILITY_MAX_SLOPE    == (5 * SLOPE_UNIT) \div 1000
PLATEAU_TICKS          == 3

Kp_pid == 80
Ki_pid == 10
Kd_pid == 5
INTEGRAL_LIMIT == INT_UNIT \div 100
MIN_POINTS == 6
SLOPE_WIN_SEC        == 30
STABILITY_WINDOW_MIN == 10
\* deque(maxlen=100000) and time.sleep(0.1)
HIST_MAXLEN   == 100000
POLLS_PER_SEC == 10

STATE_LINEAR    == "FAST_LINEAR_RAMP"
STATE_NONLINEAR == "PROPORTIONAL_CONTROL"
STATE_HOLD      == "HOLD"
STATE_COOL      == "COOL"
STATE_DONE      == "DONE"
States == {STATE_LINEAR, STATE_NONLINEAR, STATE_HOLD, STATE_COOL, STATE_DONE}

\* ----------------------------------------------------------------- bounds
MaxLinearTicks    == 57
MaxNonlinearTicks == 3
BigSlope          == 400
FairMaxLinearTicks == 2
\* The Sample Store is run on a coarse clock: the control period lasts
\* StorePeriod clock units, the longest queried window StoreWindow units, the
\* store holds StoreCap readings, and no period starts after MaxStoreClock.
StorePeriod   == 3
StoreWindow   == 4
StoreCap      == 6
MaxStoreClock == 8
\* slope_over_window is applied to stores of up to MaxPoints readings, with
\* a window of SlopeSpan clock units.
MaxPoints == 7
SlopeSpan == 2

\* ---------------------------------------------------------------- helpers
None    == <<>>
Some(v) == <<v>>

Max(a, b) == IF a >= b THEN a ELSE b
Min(a, b) == IF a <= b THEN a ELSE b
Abs(a)    == IF a < 0 THEN -a ELSE a

\* Mutant: an undefined slope defaults to the reference slope (zero error).
OrZero_Ref(x) == IF x = None THEN (EXPECTED_MAX_ABS * SLOPE_UNIT) \div (SWITCH_TIME_HRS * 60) ELSE x[1]

\* Python's `x or 0.0`: None and 0.0 both give 0.0.
OrZero(x) == IF x = None THEN 0 ELSE x[1]

\* ramp * (CHECK_PERIOD_S / 60.0), a temperature change.
RampStep(r) == (r * (TEMP_UNIT \div RAMP_UNIT) * CHECK_PERIOD_S) \div 60

\* e * dt_min, an integral increment.
ErrStep(err) == (err * (INT_UNIT \div SLOPE_UNIT) * CHECK_PERIOD_S) \div 60

\* (e - prev_error) / dt_min, in 1/SLOPE_UNIT AU/min^2.
Derivative(err, prev) == ((err - prev) * 60) \div CHECK_PERIOD_S

\* Kp*e + Ki*integral + Kd*derivative, a ramp rate.
PidOutput(err, integ, deriv) ==
    (Kp_pid * err * RAMP_UNIT) \div SLOPE_UNIT
  + (Ki_pid * integ * RAMP_UNIT) \div INT_UNIT
  + (Kd_pid * deriv * RAMP_UNIT) \div SLOPE_UNIT

\* f"{x:.2f}": x (in 1/unit) rounded to hundredths, ties to even.
Fmt2(x, unit) ==
    LET h == unit \div 100
        a == Abs(x)
        q == a \div h
        r == a % h
        m == IF 2 * r < h THEN q
             ELSE IF 2 * r > h THEN q + 1
             ELSE IF q % 2 = 0 THEN q ELSE q + 1
    IN IF x < 0 THEN -m ELSE m


\* --------------------------------------------------- conditions and clamps
\* Mutant: the switch test written with > instead of >=.
LinearSwitch_Strict(s) == s > S_REF

\* if s_meas >= S_REF
LinearSwitch(s) == s >= S_REF

\* Mutant: the anti-windup clamp is missing.
ClampIntegral_Missing(i) == i

\* integral = max(min(integral, 0.01), -0.01)
ClampIntegral(i) == Max(Min(i, INTEGRAL_LIMIT), -INTEGRAL_LIMIT)

\* Mutant: the PID output is used without the clamp.
ClampRamp_Missing(r) == r

\* ramp = max(-10.0, min(MAX_RAMP, ramp))
ClampRamp(r) == Max(MIN_RAMP, Min(MAX_RAMP, r))

\* temp = max(START_TEMP, min(MAX_TEMP, temp))
ClampTemp(t) == Max(START_TEMP, Min(MAX_TEMP, t))

\* (temp >= MAX_TEMP and ramp > 0) or (ramp >= MAX_RAMP and e > 0)
PlateauQualifies(t, r, err) ==
    (t >= MAX_TEMP /\ r > 0) \/ (r >= MAX_RAMP /\ err > 0)

\* Mutant: the plateau threshold is one tick short.
PlateauReached_Early(n) == n >= PLATEAU_TICKS - 1

\* if plateau_counter >= PLATEAU_TICKS
PlateauReached(n) == n >= PLATEAU_TICKS

\* Mutant: the two stability conditions joined by `or`.
StabilityGate_Either(rng, s10) ==
    /\ rng # None
    /\ (rng[1] < STABILITY_MAX_RANGE_AU \/ Abs(s10) < STABILITY_MAX_SLOPE)

\* rng is not None and rng < STABILITY_MAX_RANGE_AU and abs(s10) < STABILITY_MAX_SLOPE
StabilityGate(rng, s10) ==
    /\ rng # None
    /\ rng[1] < STABILITY_MAX_RANGE_AU
    /\ Abs(s10) < STABILITY_MAX_SLOPE

\* Mutant: the arrival test written with < instead of <=.
CoolReached_Strict(t) == t < START_TEMP

\* if temp <= START_TEMP
CoolReached(t) == t <= START_TEMP

\* Mutant: the loop breaks on the wrong phase.
LoopExit_Cool(st) == st = STATE_COOL

\* if state == STATE_DONE: break
LoopExit(st) == st = STATE_DONE

\* ------------------------------------------------------------ state logic
\* A context c is the record of control_loop's locals that the state logic
\* reads and writes.  u_temp and u_ramp are the values temp and ramp have in
\* the PROPORTIONAL_CONTROL branch after the update and before the plateau
\* check; the other branches leave them at the tick's final temp and ramp.

\* Mutant: the correction on the switch uses the ramp of before the reset.
LinearStep_Corrected(c, s) ==
    LET ramp1 == FAST_RAMP
        temp1 == c.temp + RampStep(ramp1)
    IN  IF LinearSwitch(s)
          THEN LET temp2 == temp1 - 2 * RampStep(ramp1)
               IN [c EXCEPT !.state = STATE_NONLINEAR, !.ramp = 0,
                            !.temp = temp2, !.u_ramp = 0, !.u_temp = temp2,
                            !.notes = "-> proportional control"]
          ELSE [c EXCEPT !.ramp = ramp1, !.temp = temp1,
                         !.u_ramp = ramp1, !.u_temp = temp1]

\* if state == STATE_LINEAR: ...
LinearStep(c, s) ==
    LET ramp1 == FAST_RAMP
        temp1 == c.temp + RampStep(ramp1)
    IN  IF LinearSwitch(s)
          THEN LET ramp2 == 0
                   temp2 == temp1 - 2 * RampStep(ramp2)
               IN [c EXCEPT !.state = STATE_NONLINEAR, !.ramp = ramp2,
                            !.temp = temp2, !.u_ramp = ramp2, !.u_temp = temp2,
                            !.notes = "-> proportional control"]
          ELSE [c EXCEPT !.ramp = ramp1, !.temp = temp1,
                         !.u_ramp = ramp1, !.u_temp = temp1]

\* Mutant: integral and prev_error are set to 0 on every tick of the branch.
NonlinearStep_Reinit(c, s) ==
    LET integral0 == 0
        prev0     == 0
        err       == S_REF - s
        integral1 == integral0 + ErrStep(err)
        deriv     == Derivative(err, prev0)
        integral2 == ClampIntegral(integral1)
        ramp1     == ClampRamp(PidOutput(err, integral2, deriv))
        temp1     == ClampTemp(c.temp + RampStep(ramp1))
        counter1  == IF PlateauQualifies(temp1, ramp1, err)
                       THEN c.plateau_counter + 1 ELSE 0
        d == [c EXCEPT !.pid_defined = TRUE, !.integral = integral2,
                       !.prev_error = err, !.e = Some(err),
                       !.u_ramp = ramp1, !.u_temp = temp1,
                       !.plateau_counter = counter1]
    IN  IF PlateauReached(counter1)
          THEN [d EXCEPT !.state = STATE_HOLD, !.ramp = 0, !.temp = MAX_TEMP,
                         !.notes = "Reached limit -> HOLD"]
          ELSE [d EXCEPT !.ramp = ramp1, !.temp = temp1]

\* elif state == STATE_NONLINEAR: ...
NonlinearStep(c, s) ==
    LET integral0 == IF c.pid_defined THEN c.integral ELSE 0
        prev0     == IF c.pid_defined THEN c.prev_error ELSE 0
        err       == S_REF - s
        integral1 == integral0 + ErrStep(err)
        deriv     == Derivative(err, prev0)
        integral2 == ClampIntegral(integral1)
        ramp1     == ClampRamp(PidOutput(err, integral2, deriv))
        temp1     == ClampTemp(c.temp + RampStep(ramp1))
        counter1  == IF PlateauQualifies(temp1, ramp1, err)
                       THEN c.plateau_counter + 1 ELSE 0
        d == [c EXCEPT !.pid_defined = TRUE, !.integral = integral2,
                       !.prev_error = err, !.e = Some(err),
                       !.u_ramp = ramp1, !.u_temp = temp1,
                       !.plateau_counter = counter1]
    IN  IF PlateauReached(counter1)
          THEN [d EXCEPT !.state = STATE_HOLD, !.ramp = 0, !.temp = MAX_TEMP,
                         !.notes = "Reached limit -> HOLD"]
          ELSE [d EXCEPT !.ramp = ramp1, !.temp = temp1]

\* elif state == STATE_COOL: ...
CoolStep(c) ==
    LET ramp1 == COOL_RAMP
        temp1 == START_TEMP
    IN  IF CoolReached(temp1)
          THEN [c EXCEPT !.state = STATE_DONE, !.ramp = 0, !.temp = START_TEMP,
                         !.u_ramp = 0, !.u_temp = START_TEMP,
                         !.notes = "Reached 20 C -> done."]
          ELSE [c EXCEPT !.ramp = ramp1, !.temp = temp1,
                         !.u_ramp = ramp1, !.u_temp = temp1]


\* Mutant: the branches are chained with `if` instead of `elif`, so a tick
\* that enters COOL falls through into the COOL branch.
HoldStep_FallThrough(c, rng, s10raw) ==
    LET s10 == OrZero(s10raw)
        d   == [c EXCEPT !.rng = rng, !.s10 = Some(s10)]
    IN  IF StabilityGate(rng, s10)
          THEN CoolStep([d EXCEPT !.state = STATE_COOL, !.ramp = COOL_RAMP,
                                  !.temp = START_TEMP])
          ELSE [d EXCEPT !.ramp = 0, !.temp = MAX_TEMP,
                         !.u_ramp = 0, !.u_temp = MAX_TEMP]

\* elif state == STATE_HOLD: ...
HoldStep(c, rng, s10raw) ==
    LET s10 == OrZero(s10raw)
        d   == [c EXCEPT !.rng = rng, !.s10 = Some(s10)]
    IN  IF StabilityGate(rng, s10)
          THEN [d EXCEPT !.state = STATE_COOL, !.ramp = COOL_RAMP,
                         !.temp = START_TEMP, !.u_ramp = COOL_RAMP,
                         !.u_temp = START_TEMP, !.notes = "Stable -> COOL"]
          ELSE [d EXCEPT !.ramp = 0, !.temp = MAX_TEMP,
                         !.u_ramp = 0, !.u_temp = MAX_TEMP]

\* ------------------------------------------------------------------ state
VARIABLES
    pc,               \* position in control_loop's while loop
    state,            \* control phase
    temp,             \* temperature target
    ramp,             \* ramp rate
    plateau_counter,
    pid_defined,      \* "integral" in locals()
    integral,
    prev_error,
    e,                \* last feedback error (None before the first one)
    nread,            \* readings appended to history in the current period
    s_raw,            \* slope_over_window(history, SLOPE_WIN_SEC)
    s_meas,           \* s_raw or 0.0
    rng,              \* range_over_window(history, STABILITY_WINDOW_MIN)
    s10,              \* 10 min slope or 0.0 (None before the first HOLD tick)
    notes,
    u_temp,           \* temp after the tick's update, before a plateau transition
    u_ramp,           \* ramp after the tick's update, before a plateau transition
    cmds,             \* commands attempted in the current tick, in order
    pre,              \* the context at the start of the current tick
    quals,            \* plateau qualification of the last PROPORTIONAL_CONTROL ticks
    nl_ticks,         \* PROPORTIONAL_CONTROL ticks run so far
    env,              \* what the desktop holds when the process starts
    history,          \* the deque of (timestamp, absorbance) readings
    now,              \* time.time(), in polling intervals
    t0,               \* start of the current polling period
    last_read,        \* result of the last read_absorbance (None: no value)
    appended,         \* every reading ever appended to history, in order
    win_slope         \* result of the last slope_over_window on history

ctxvars == <<state, temp, ramp, plateau_counter, pid_defined, integral,
             prev_error, e, rng, s10, notes, u_temp, u_ramp>>
vars == <<pc, state, temp, ramp, plateau_counter, pid_defined, integral,
          prev_error, e, nread, s_raw, s_meas, rng, s10, notes, u_temp,
          u_ramp, cmds, pre, quals, nl_ticks,
          env, history, now, t0, last_read, appended, win_slope>>

\* The variables of start-up and of the Sample Store.  The controller's
\* specification Spec stands for the store by nread and by the statistics it
\* draws, and leaves these at their initial values; the store's own
\* specifications run the polling sub-loop on them.
auxvars == <<env, history, now, t0, last_read, appended, win_slope>>

Ctx == [state |-> state, temp |-> temp, ramp |-> ramp,
        plateau_counter |-> plateau_counter, pid_defined |-> pid_defined,
        integral |-> integral, prev_error |-> prev_error, e |-> e,
        rng |-> rng, s10 |-> s10, notes |-> notes,
        u_temp |-> u_temp, u_ramp |-> u_ramp]

Apply(c) ==
    /\ state' = c.state
    /\ temp' = c.temp
    /\ ramp' = c.ramp
    /\ plateau_counter' = c.plateau_counter
    /\ pid_defined' = c.pid_defined
    /\ integral' = c.integral
    /\ prev_error' = c.prev_error
    /\ e' = c.e
    /\ rng' = c.rng
    /\ s10' = c.s10
    /\ notes' = c.notes
    /\ u_temp' = c.u_temp
    /\ u_ramp' = c.u_ramp

\* ----------------------------------------------------------------- inputs
\* Slopes the sensor's readings can produce around the thresholds of the
\* controller: zero, just below and at S_REF, and steep either way.
SlopeValues == {0, S_REF - 1, S_REF, -BigSlope, BigSlope}

\* Numbers of readings a period can append: none (every read failed), one
\* too few for a slope, and enough for a slope.
ReadCounts == {0, MIN_POINTS - 1, MIN_POINTS}

\* slope_over_window returns None below MIN_POINTS points in the window; the
\* 30 s window holds only readings of the period just polled.
SlopeResults(n) ==
    IF n < MIN_POINTS THEN {None}
    ELSE {None} \cup {Some(v) : v \in SlopeValues}

RangeValues == {STABILITY_MAX_RANGE_AU - 100, STABILITY_MAX_RANGE_AU,
                STABILITY_MAX_RANGE_AU + 100}

\* range_over_window returns None only for an empty window.
RangeResults(n) ==
    IF n = 0 THEN {None} \cup {Some(v) : v \in RangeValues}
    ELSE {Some(v) : v \in RangeValues}

Slope10Values == {0, 9, -9, STABILITY_MAX_SLOPE, -STABILITY_MAX_SLOPE}
Slope10Results == {None} \cup {Some(v) : v \in Slope10Values}

\* Mutant: the ramp command carries the ramp of before the tick's state logic.
RRCommand_Stale(r) == [kind |-> "RR", val |-> Fmt2(pre.ramp, RAMP_UNIT)]

\* f"[F1 RR S {ramp:.2f}]" and f"[F1 TT S {temp:.2f}]"
RRCommand(r) == [kind |-> "RR", val |-> Fmt2(r, RAMP_UNIT)]
TTCommand(t) == [kind |-> "TT", val |-> Fmt2(t, TEMP_UNIT)]

\* Mutant: a failed send is attempted again.
AfterSend_Retry(ok, next) == IF ok THEN next ELSE pc

\* send_temp_command catches every exception and returns: the caller goes on
\* to its next statement whether the command was delivered (ok) or not.
AfterSend(ok, next) == next

\* Desktop(...).window(title_re=TITLE_RE_TEMPAPP).wait(..., timeout=10) raises
\* when the T-App window is absent, and the except clause turns that into a
\* printed error: the command is not delivered.  With the window present the
\* keystrokes may still fail.
SendOutcomes(en) == IF en.tapp THEN BOOLEAN ELSE {FALSE}

\* Mutant: the numeric element is not looked for.
SensorFound_WindowOnly(en) == en.uvvis

\* get_uvvis_window returns only if the window exists within its 20 s wait,
\* get_absorbance_element only if a descendant shows a number; either raises
\* otherwise and nothing in control_loop catches it.
SensorFound(en) == en.uvvis /\ en.element

\* What the desktop may hold when the process starts.
Environments == [uvvis : BOOLEAN, element : BOOLEAN, tapp : BOOLEAN]

\* ------------------------------------------------------------------- Init
\* The locals of control_loop before the first period.
LoopInit ==
    /\ state = STATE_LINEAR
    /\ temp = START_TEMP
    /\ ramp = FAST_RAMP
    /\ plateau_counter = 0
    /\ pid_defined = FALSE
    /\ integral = 0
    /\ prev_error = 0
    /\ e = None
    /\ nread = 0
    /\ s_raw = None
    /\ s_meas = 0
    /\ rng = None
    /\ s10 = None
    /\ notes = ""
    /\ u_temp = START_TEMP
    /\ u_ramp = FAST_RAMP
    /\ cmds = <<>>
    /\ pre = Ctx
    /\ quals = <<>>
    /\ nl_ticks = 0
    /\ history = <<>>
    /\ now = 0
    /\ t0 = 0
    /\ last_read = None
    /\ appended = <<>>
    /\ win_slope = None

\* The loop is entered with the UV-Vis window and its numeric element found.
Init ==
    /\ pc = "poll"
    /\ env = [uvvis |-> TRUE, element |-> TRUE, tapp |-> TRUE]
    /\ LoopInit

\* ---------------------------------------------------------------- actions
\* The polling sub-loop of one period, then the statistics of the window.
\* maxLinear bounds the number of FAST_LINEAR_RAMP ticks of a run.
PollWithin(maxLinear) ==
    /\ pc = "poll"
    /\ state = STATE_LINEAR =>
         temp < START_TEMP + maxLinear * RampStep(FAST_RAMP)
    /\ state = STATE_NONLINEAR => nl_ticks < MaxNonlinearTicks
    /\ \E n \in ReadCounts : \E sl \in SlopeResults(n) :
         /\ nread' = n
         /\ s_raw' = sl
         /\ s_meas' = OrZero(sl)
    /\ notes' = ""
    /\ pre' = [Ctx EXCEPT !.notes = ""]
    /\ pc' = "logic"
    /\ UNCHANGED <<state, temp, ramp, plateau_counter, pid_defined, integral,
                   prev_error, e, rng, s10, u_temp, u_ramp, cmds, quals,
                   nl_ticks>>
    /\ UNCHANGED auxvars

Poll == PollWithin(MaxLinearTicks)

LogicLinear ==
    /\ pc = "logic"
    /\ state = STATE_LINEAR
    /\ Apply(LinearStep(Ctx, s_meas))
    /\ pc' = "send_rr"
    /\ UNCHANGED <<nread, s_raw, s_meas, cmds, pre, quals, nl_ticks>>
    /\ UNCHANGED auxvars

LogicNonlinear ==
    /\ pc = "logic"
    /\ state = STATE_NONLINEAR
    /\ Apply(NonlinearStep(Ctx, s_meas))
    /\ quals' = LET q == Append(quals, PlateauQualifies(u_temp', u_ramp', e'[1]))
                IN  IF Len(q) > PLATEAU_TICKS THEN Tail(q) ELSE q
    /\ nl_ticks' = nl_ticks + 1
    /\ pc' = "send_rr"
    /\ UNCHANGED <<nread, s_raw, s_meas, cmds, pre>>
    /\ UNCHANGED auxvars

LogicHold ==
    /\ pc = "logic"
    /\ state = STATE_HOLD
    /\ \E r \in RangeResults(nread) : \E sl \in Slope10Results :
         Apply(HoldStep(Ctx, r, sl))
    /\ pc' = "send_rr"
    /\ UNCHANGED <<nread, s_raw, s_meas, cmds, pre, quals, nl_ticks>>
    /\ UNCHANGED auxvars

LogicCool ==
    /\ pc = "logic"
    /\ state = STATE_COOL
    /\ Apply(CoolStep(Ctx))
    /\ pc' = "send_rr"
    /\ UNCHANGED <<nread, s_raw, s_meas, cmds, pre, quals, nl_ticks>>
    /\ UNCHANGED auxvars

SendRR ==
    /\ pc = "send_rr"
    /\ \E ok \in SendOutcomes(env) :
         /\ cmds' = Append(cmds, [cmd |-> RRCommand(ramp), ok |-> ok])
         /\ pc' = AfterSend(ok, "send_tt")
    /\ UNCHANGED <<ctxvars, nread, s_raw, s_meas, pre, quals, nl_ticks>>
    /\ UNCHANGED auxvars

SendTT ==
    /\ pc = "send_tt"
    /\ \E ok \in SendOutcomes(env) :
         /\ cmds' = Append(cmds, [cmd |-> TTCommand(temp), ok |-> ok])
         /\ pc' = AfterSend(ok, "check")
    /\ UNCHANGED <<ctxvars, nread, s_raw, s_meas, pre, quals, nl_ticks>>
    /\ UNCHANGED auxvars

LoopBreak ==
    /\ pc = "check"
    /\ LoopExit(state)
    /\ pc' = "exit"
    /\ UNCHANGED <<ctxvars, nread, s_raw, s_meas, cmds, pre, quals, nl_ticks>>
    /\ UNCHANGED auxvars

LoopContinue ==
    /\ pc = "check"
    /\ ~LoopExit(state)
    /\ pc' = "poll"
    /\ cmds' = <<>>
    /\ UNCHANGED <<ctxvars, nread, s_raw, s_meas, pre, quals, nl_ticks>>
    /\ UNCHANGED auxvars

Next ==
    \/ Poll
    \/ LogicLinear
    \/ LogicNonlinear
    \/ LogicHold
    \/ LogicCool
    \/ SendRR
    \/ SendTT
    \/ LoopBreak
    \/ LoopContinue

Spec == Init /\ [][Next]_vars

\* The loop has no blocking wait without a timeout: a step that can be taken
\* is taken.
\* The liveness specification runs the same loop with a shorter
\* FAST_LINEAR_RAMP phase.
FairPoll == PollWithin(FairMaxLinearTicks)

FairNext ==
    \/ FairPoll
    \/ LogicLinear
    \/ LogicNonlinear
    \/ LogicHold
    \/ LogicCool
    \/ SendRR
    \/ SendTT
    \/ LoopBreak
    \/ LoopContinue

FairSpec == Init /\ [][FairNext]_vars /\ WF_vars(FairNext)


\* ----------------------------------------------------------- Sample Store
\* Mutant: a full store refuses the new reading.
AppendBounded_DropNewest(h, x, cap) == IF Len(h) >= cap THEN h ELSE Append(h, x)

\* deque(maxlen=cap).append(x): the new item goes to the right end and, if the
\* deque was full, the leftmost item is discarded.
AppendBounded(h, x, cap) ==
    LET g == Append(h, x) IN IF Len(g) > cap THEN Tail(g) ELSE g

\* Mutant: a read without a value is stored as 0.
RecordRead_Always(h, t, val) == AppendBounded(h, <<t, OrZero(val)>>, StoreCap)

\* val = read_absorbance(absel); if val is not None: history.append((time.time(), val))
RecordRead(h, t, val) ==
    IF val # None THEN AppendBounded(h, <<t, val[1]>>, StoreCap) ELSE h

\* Mutant: the polling loop does not sleep.
NextPollTime_NoSleep(clock, d) == clock + d - 1

\* time.sleep(0.1) ends every iteration of the polling loop: the clock has
\* advanced by d >= 1 units when the loop condition is tested again.
NextPollTime(clock, d) == clock + d

\* An iteration takes the sleep, or the sleep and a slow read.
PollDurations == {1, 2}
\* Statistics, state logic and the two sends take little time, or a whole
\* unit when a send waits for the T-App window.
TickDurations == {0, 1}
\* read_absorbance: None when the element shows no number.  The absorbance
\* is flat, so the controller stays in FAST_LINEAR_RAMP.
ReadResults == {None, Some(0)}

\* while time.time() - t0 < CHECK_PERIOD_S
PollingContinues(clock, start) == clock - start < StorePeriod

\* Clock units in a minute, and SLOPE_WIN_SEC in clock units.
UnitsPerMin == (60 * StorePeriod) \div CHECK_PERIOD_S
SlopeWindow == (SLOPE_WIN_SEC * StorePeriod) \div CHECK_PERIOD_S

\* pts = [(t, a) for (t, a) in deq if t >= cutoff]
RECURSIVE WindowPoints(_, _)
WindowPoints(h, cutoff) ==
    IF h = <<>> THEN <<>>
    ELSE IF h[1][1] >= cutoff
         THEN <<h[1]>> \o WindowPoints(Tail(h), cutoff)
         ELSE WindowPoints(Tail(h), cutoff)

\* Python's sum()
RECURSIVE SeqSum(_)
SeqSum(q) == IF q = <<>> THEN 0 ELSE q[1] + SeqSum(Tail(q))

\* Mutant: exactly MIN_POINTS points are still too few.
TooFewPoints_Inclusive(pts) == Len(pts) <= MIN_POINTS

\* if len(pts) < 6: return None
TooFewPoints(pts) == Len(pts) < MIN_POINTS

\* slope_over_window, in exact arithmetic: None, or the least-squares slope
\* as the fraction <<num, den>> in absorbance units per clock unit.  The
\* deviations from the means are kept as integers by scaling them with n
\* (n*x - sum(xs) for x - mx), and the code's division of x by 60 is left
\* out; both scale num and den by positive factors and leave den # 0 as is.
SlopeOverWindow(h, clock, seconds) ==
    LET pts == WindowPoints(h, clock - seconds) IN
    IF TooFewPoints(pts) THEN None
    ELSE LET first == pts[1][1]
             n   == Len(pts)
             xs  == [i \in 1..n |-> pts[i][1] - first]
             ys  == [i \in 1..n |-> pts[i][2]]
             dx  == [i \in 1..n |-> n * xs[i] - SeqSum(xs)]
             dy  == [i \in 1..n |-> n * ys[i] - SeqSum(ys)]
             num == SeqSum([i \in 1..n |-> dx[i] * dy[i]])
             den == SeqSum([i \in 1..n |-> dx[i] * dx[i]])
         IN  IF den # 0 THEN Some(<<num, den>>) ELSE None

\* The slope in AU/min, in SLOPE_UNIT.
SlopeInUnits(r) ==
    IF r = None THEN None
    ELSE Some((r[1][1] * UnitsPerMin * SLOPE_UNIT) \div (r[1][2] * ABS_UNIT))

\* t0 = time.time()
StoreBegin ==
    /\ pc = "poll"
    /\ now <= MaxStoreClock
    /\ \E d \in TickDurations :
         /\ now' = now + d
         /\ t0' = now + d
    /\ pc' = "polling"
    /\ UNCHANGED <<ctxvars, nread, s_raw, s_meas, cmds, pre, quals, nl_ticks>>
    /\ UNCHANGED <<env, history, last_read, appended, win_slope>>

\* One iteration of the polling loop: read, append if there is a value, sleep.
StoreRead ==
    /\ pc = "polling"
    /\ PollingContinues(now, t0)
    /\ \E val \in ReadResults, d \in PollDurations :
         /\ last_read' = val
         /\ history' = RecordRead(history, now, val)
         /\ appended' = IF val # None THEN Append(appended, <<now, val[1]>>)
                          ELSE appended
         /\ now' = NextPollTime(now, d)
    /\ UNCHANGED <<pc, ctxvars, nread, s_raw, s_meas, cmds, pre, quals,
                   nl_ticks>>
    /\ UNCHANGED <<env, t0, win_slope>>

\* The polling loop is left and the statistics of the tick are computed.
StoreStats ==
    /\ pc = "polling"
    /\ ~PollingContinues(now, t0)
    /\ win_slope' = SlopeOverWindow(history, now, SlopeWindow)
    /\ nread' = Len(WindowPoints(history, now - SlopeWindow))
    /\ s_raw' = SlopeInUnits(win_slope')
    /\ s_meas' = OrZero(s_raw')
    /\ notes' = ""
    /\ pre' = [Ctx EXCEPT !.notes = ""]
    /\ pc' = "logic"
    /\ UNCHANGED <<state, temp, ramp, plateau_counter, pid_defined, integral,
                   prev_error, e, rng, s10, u_temp, u_ramp, cmds, quals,
                   nl_ticks>>
    /\ UNCHANGED <<env, history, now, t0, last_read, appended>>

StoreNext ==
    \/ StoreBegin
    \/ StoreRead
    \/ StoreStats
    \/ LogicLinear
    \/ SendRR
    \/ SendTT
    \/ LoopContinue

StoreSpec == Init /\ [][StoreNext]_vars /\ WF_vars(StoreNext)

\* ------------------------------------------------------ slope_over_window
\* The function on its own: a store is built reading by reading, with
\* timestamps that never decrease, and queried once.
PointGaps   == {0, 1}
PointValues == {0, 1}
QueryLags   == {0, 1, 2}

SlopeInit ==
    /\ pc = "slope_build"
    /\ env = [uvvis |-> TRUE, element |-> TRUE, tapp |-> TRUE]
    /\ LoopInit

AddPoint ==
    /\ pc = "slope_build"
    /\ Len(history) < MaxPoints
    /\ \E d \in PointGaps, a \in PointValues :
         /\ now' = now + d
         /\ history' = Append(history, <<now + d, a>>)
    /\ UNCHANGED <<pc, ctxvars, nread, s_raw, s_meas, cmds, pre, quals,
                   nl_ticks>>
    /\ UNCHANGED <<env, t0, last_read, appended, win_slope>>

\* slope_over_window(history, window_sec), called when the clock shows now'.
QuerySlope ==
    /\ pc = "slope_build"
    /\ \E lag \in QueryLags :
         /\ now' = now + lag
         /\ win_slope' = SlopeOverWindow(history, now + lag, SlopeSpan)
    /\ pc' = "slope_done"
    /\ UNCHANGED <<ctxvars, nread, s_raw, s_meas, cmds, pre, quals, nl_ticks>>
    /\ UNCHANGED <<env, history, t0, last_read, appended>>

SlopeNext ==
    \/ AddPoint
    \/ QuerySlope

SlopeSpec == SlopeInit /\ [][SlopeNext]_vars

\* ---------------------------------------------------------------- start-up
\* The process as launched: control_loop has not yet looked for the sensor.
StartInit ==
    /\ pc = "start"
    /\ env \in Environments
    /\ LoopInit

\* The first two statements of control_loop.  An exception there leaves
\* control_loop and ends the process; the T-App window is not looked for.
Startup ==
    /\ pc = "start"
    /\ pc' = IF SensorFound(env) THEN "poll" ELSE "crashed"
    /\ UNCHANGED <<ctxvars, nread, s_raw, s_meas, cmds, pre, quals, nl_ticks>>
    /\ UNCHANGED auxvars

StartNext ==
    \/ Startup
    \/ FairPoll
    \/ LogicLinear
    \/ LogicNonlinear
    \/ LogicHold
    \/ LogicCool
    \/ SendRR
    \/ SendTT
    \/ LoopBreak
    \/ LoopContinue

StartSpec == StartInit /\ [][StartNext]_vars

\* ------------------------------------------------------------- properties
Rank(st) ==
    CASE st = STATE_LINEAR    -> 0
      [] st = STATE_NONLINEAR -> 1
      [] st = STATE_HOLD      -> 2
      [] st = STATE_COOL      -> 3
      [] st = STATE_DONE      -> 4

\* TRUE once the state logic of the current tick has run (and until the
\* next period's polling ends).
LogicRan == pc # "logic"

\* C1: temp_target lies in [START_TEMP, MAX_TEMP] after every tick, in every
\* phase, FAST_LINEAR_RAMP included.
C1_TempTargetInRange == temp >= START_TEMP /\ temp <= MAX_TEMP

\* C2: the phase after a tick is the phase before it or its immediate
\* successor, and no step moves the phase backward.
C2_PhaseForward ==
    [][/\ Rank(state') >= Rank(state)
       /\ Rank(state') \in {Rank(pre'.state), Rank(pre'.state) + 1}]_vars

C2_Witness == pc = "exit" /\ state = STATE_DONE /\ nl_ticks = MaxNonlinearTicks

\* C3: ramp lies in [-10, MAX_RAMP] in every state; in PROPORTIONAL_CONTROL
\* the value applied to temp and the value sent are the clamped one.
C3_RampInRange ==
    /\ ramp >= MIN_RAMP /\ ramp <= MAX_RAMP
    /\ u_ramp >= MIN_RAMP /\ u_ramp <= MAX_RAMP
    /\ (pre.state = STATE_NONLINEAR /\ LogicRan) =>
          u_temp = Max(START_TEMP, Min(MAX_TEMP, pre.temp + RampStep(u_ramp)))
    /\ \A i \in 1..Len(cmds) :
          cmds[i].cmd.kind = "RR" =>
             cmds[i].cmd.val >= -1000 /\ cmds[i].cmd.val <= 1000

C3_Witness ==
    /\ pre.state = STATE_NONLINEAR /\ pc = "check"
    /\ state = STATE_NONLINEAR
    /\ ramp = MAX_RAMP
    /\ PidOutput(e[1], integral, Derivative(e[1], pre.prev_error)) > MAX_RAMP
    /\ cmds[1].cmd.val = 1000


\* C4: the loop stops exactly when the phase is DONE at the end of a tick,
\* never in another phase; once DONE is reached no new period is polled and
\* phase, temp and ramp stay as they are; once the loop has stopped nothing
\* changes any more (no reading, no command).
C4_StopsExactlyAtDone ==
    [][/\ pc' = "exit" => state' = STATE_DONE
       /\ (pc = "check" /\ state = STATE_DONE) => pc' = "exit"
       /\ (pc = "check" /\ state # STATE_DONE) => pc' = "poll"
       /\ state = STATE_DONE =>
            /\ state' = STATE_DONE /\ temp' = temp /\ ramp' = ramp
            /\ nread' = nread
            /\ pc' \in {"send_tt", "check", "exit"}
       /\ pc = "exit" => UNCHANGED vars]_vars

C4_Witness == pc = "exit" /\ state = STATE_DONE /\ pre.state = STATE_COOL

\* C5: every tick attempts exactly two commands, the ramp-rate command and
\* then the target-temperature command, with the ramp and temp the tick's
\* state logic left; none is attempted before the state logic has run.
C5_TwoCommandsInOrder ==
    /\ pc \in {"poll", "logic", "send_rr"} => cmds = <<>>
    /\ pc = "send_tt" =>
          /\ Len(cmds) = 1
          /\ cmds[1].cmd = [kind |-> "RR", val |-> Fmt2(ramp, RAMP_UNIT)]
    /\ pc \in {"check", "exit"} =>
          /\ Len(cmds) = 2
          /\ cmds[1].cmd = [kind |-> "RR", val |-> Fmt2(ramp, RAMP_UNIT)]
          /\ cmds[2].cmd = [kind |-> "TT", val |-> Fmt2(temp, TEMP_UNIT)]

C5_Witness ==
    /\ pc = "check" /\ state = STATE_DONE /\ pre.state = STATE_COOL
    /\ Len(cmds) = 2
    /\ cmds[1].cmd = [kind |-> "RR", val |-> 0]
    /\ cmds[2].cmd = [kind |-> "TT", val |-> 4500]

\* C6: a tick that begins in FAST_LINEAR_RAMP ends in PROPORTIONAL_CONTROL
\* iff its measured slope is >= S_REF; if it is below, the tick stays with
\* ramp = FAST_RAMP and an empty note, otherwise it leaves ramp = 0 and a
\* non-empty note.
C6_LinearSwitchAtSRef ==
    (pre.state = STATE_LINEAR /\ LogicRan) =>
       /\ state \in {STATE_LINEAR, STATE_NONLINEAR}
       /\ state = STATE_NONLINEAR <=> s_meas * 300 >= SLOPE_UNIT
       /\ state = STATE_LINEAR => ramp = FAST_RAMP /\ notes = ""
       /\ state = STATE_NONLINEAR => ramp = 0 /\ notes # ""

C6_Witness ==
    /\ pre.state = STATE_LINEAR /\ pc = "send_rr"
    /\ state = STATE_NONLINEAR
    /\ s_meas * 300 = SLOPE_UNIT
    /\ pre.temp > START_TEMP

\* C7: in PROPORTIONAL_CONTROL a tick qualifies when, after its update,
\* (temp >= MAX_TEMP and ramp > 0) or (ramp >= MAX_RAMP and e > 0); the
\* counter goes up by one on a qualifying tick and back to 0 otherwise; the
\* tick ends in HOLD exactly when it is the third qualifying tick in a row,
\* and then leaves ramp = 0 and temp = MAX_TEMP.
C7_PlateauAfterThree ==
    (pre.state = STATE_NONLINEAR /\ LogicRan) =>
       LET qualifies == \/ (u_temp >= MAX_TEMP /\ u_ramp > 0)
                        \/ (u_ramp >= MAX_RAMP /\ e[1] > 0)
           threeInARow == /\ Len(quals) = 3
                          /\ \A i \in 1..3 : quals[i]
       IN  /\ quals[Len(quals)] = qualifies
           /\ plateau_counter = IF qualifies THEN pre.plateau_counter + 1 ELSE 0
           /\ state \in {STATE_NONLINEAR, STATE_HOLD}
           /\ state = STATE_HOLD <=> threeInARow
           /\ state = STATE_HOLD => ramp = 0 /\ temp = MAX_TEMP

C7_Witness ==
    /\ pre.state = STATE_NONLINEAR /\ pc = "send_rr"
    /\ state = STATE_HOLD
    /\ quals = <<TRUE, TRUE, TRUE>>
    /\ u_temp < MAX_TEMP
    /\ u_ramp = MAX_RAMP

\* C8: a tick that begins in HOLD ends in COOL only if the 10 min range is
\* below 0.05 AU and the 10 min |slope| below 0.005 AU/min in that tick; with
\* a range of 0.05 AU or more (or none) it stays in HOLD with ramp 0 and
\* temp MAX_TEMP; a tick that ends in COOL leaves ramp = COOL_RAMP and
\* temp = START_TEMP.
C8_StabilityGate ==
    (pre.state = STATE_HOLD /\ LogicRan) =>
       /\ state \in {STATE_HOLD, STATE_COOL}
       /\ state = STATE_COOL =>
            /\ rng # None /\ rng[1] * 100 < 5 * ABS_UNIT
            /\ Abs(s10[1]) * 1000 < 5 * SLOPE_UNIT
            /\ ramp = COOL_RAMP /\ temp = START_TEMP
       /\ (rng = None \/ rng[1] * 100 >= 5 * ABS_UNIT) =>
            state = STATE_HOLD /\ ramp = 0 /\ temp = MAX_TEMP
       /\ state = STATE_HOLD => ramp = 0 /\ temp = MAX_TEMP

C8_Witness ==
    /\ pre.state = STATE_HOLD /\ pc = "send_rr"
    /\ state = STATE_COOL
    /\ rng = Some(400) /\ s10 = Some(9)

\* C9: from a tick that begins in COOL the controller eventually reaches
\* DONE, and the tick that begins in COOL leaves temp = START_TEMP, ramp = 0
\* and phase DONE.
C9_CoolReachesDone ==
    /\ [](state = STATE_COOL =>
            <>(state = STATE_DONE /\ temp = START_TEMP /\ ramp = 0))
    /\ []((pre.state = STATE_COOL /\ LogicRan) =>
            (state = STATE_DONE /\ temp = START_TEMP /\ ramp = 0))

C9_Witness ==
    /\ pre.state = STATE_COOL /\ pc = "send_rr"
    /\ state = STATE_DONE /\ temp = START_TEMP /\ ramp = 0
    /\ pre.ramp = COOL_RAMP

\* C10: a send, delivered or not, changes nothing of the controller and goes
\* on to the next statement; every tick attempts each of its two commands
\* once, and the loop goes on to the next period after failed sends.
C10_SendFailureHarmless ==
    [][/\ pc \in {"send_rr", "send_tt"} =>
            /\ UNCHANGED ctxvars
            /\ Len(cmds') = Len(cmds) + 1
            /\ pc' = IF pc = "send_rr" THEN "send_tt" ELSE "check"
       /\ Len(cmds') <= 2
       /\ Len(cmds') = 2 => cmds'[1].cmd.kind # cmds'[2].cmd.kind
       /\ (pc = "check" /\ state # STATE_DONE) => pc' = "poll" /\ UNCHANGED ctxvars]_vars

C10_Witness ==
    /\ pc = "check" /\ Len(cmds) = 2
    /\ ~cmds[1].ok /\ ~cmds[2].ok
    /\ state = STATE_NONLINEAR /\ pre.state = STATE_NONLINEAR
    /\ temp # pre.temp


\* TRUE from the end of a tick's state logic to the end of the tick.
TickRan == pc \in {"send_rr", "send_tt", "check", "exit"}

\* C13: after every PROPORTIONAL_CONTROL tick the integral lies in
\* [-0.01, 0.01]; the tick adds e * dt_min to the carried value and clamps,
\* and the clamped value is the one in the ramp and the one carried on.
C13_IntegralClamped ==
    /\ integral * 100 <= INT_UNIT /\ integral * 100 >= -INT_UNIT
    /\ (pre.state = STATE_NONLINEAR /\ TickRan) =>
          LET carried == IF pre.pid_defined THEN pre.integral ELSE 0
              prev    == IF pre.pid_defined THEN pre.prev_error ELSE 0
              raw     == carried + ErrStep(e[1])
          IN  /\ integral = Max(-(INT_UNIT \div 100), Min(INT_UNIT \div 100, raw))
              /\ u_ramp = Max(MIN_RAMP, Min(MAX_RAMP,
                              PidOutput(e[1], integral, Derivative(e[1], prev))))

C13_Witness ==
    /\ pre.state = STATE_NONLINEAR /\ TickRan
    /\ pre.pid_defined
    /\ pre.integral + ErrStep(e[1]) > INTEGRAL_LIMIT
    /\ integral = INTEGRAL_LIMIT
    /\ state = STATE_NONLINEAR

\* C16: integral and prev_error start at 0 on the first PROPORTIONAL_CONTROL
\* tick, the tick after the switch from FAST_LINEAR_RAMP; they are set up
\* once and never again; every later PROPORTIONAL_CONTROL tick starts from
\* the values the previous one left; ticks of the other phases leave them
\* unchanged.
C16_PidStateInitOnce ==
    /\ pid_defined <=> nl_ticks > 0
    /\ (pre.state = STATE_NONLINEAR /\ TickRan) =>
          /\ pid_defined /\ prev_error = e[1] /\ e[1] = S_REF - s_meas
          /\ ~pre.pid_defined =>
                /\ nl_ticks = 1
                /\ integral = ClampIntegral(0 + ErrStep(e[1]))
                /\ u_ramp = ClampRamp(PidOutput(e[1], integral, Derivative(e[1], 0)))
          /\ pre.pid_defined =>
                /\ nl_ticks > 1
                /\ integral = ClampIntegral(pre.integral + ErrStep(e[1]))
                /\ u_ramp = ClampRamp(PidOutput(e[1], integral,
                                                Derivative(e[1], pre.prev_error)))
    /\ (pre.state \in {STATE_LINEAR, STATE_HOLD, STATE_COOL} /\ TickRan) =>
          /\ pid_defined = pre.pid_defined
          /\ integral = pre.integral
          /\ prev_error = pre.prev_error

C16_Witness ==
    /\ pre.state = STATE_NONLINEAR /\ TickRan
    /\ nl_ticks = 2
    /\ pre.integral # 0 /\ pre.prev_error # 0
    /\ integral # ClampIntegral(ErrStep(e[1]))

\* C17: the tick that switches from FAST_LINEAR_RAMP to PROPORTIONAL_CONTROL
\* leaves temp at its value before the tick plus FAST_RAMP * dt_min (1 degC),
\* as a tick that stays does, and sends a ramp of 0.
C17_SwitchNoCorrection ==
    (pre.state = STATE_LINEAR /\ TickRan) =>
       /\ temp = pre.temp + TEMP_UNIT
       /\ state = STATE_NONLINEAR =>
            /\ ramp = 0
            /\ Len(cmds) >= 1 => cmds[1].cmd = [kind |-> "RR", val |-> 0]

C17_Witness ==
    /\ pre.state = STATE_LINEAR /\ pc = "check"
    /\ state = STATE_NONLINEAR
    /\ pre.temp = START_TEMP + 4 * TEMP_UNIT
    /\ temp = START_TEMP + 5 * TEMP_UNIT
    /\ cmds[1].cmd = [kind |-> "RR", val |-> 0]
    /\ cmds[2].cmd = [kind |-> "TT", val |-> 5000]

\* C18: a tick whose 30 s slope is undefined ends as the same tick with a
\* measured slope of 0 does (phase, temp, ramp, PID state, commands); in HOLD
\* an undefined 10 min slope acts as a slope of 0 and an undefined range
\* keeps the controller in HOLD.
C18_UndefinedSlopeIsZero ==
    /\ (s_raw = None /\ TickRan) =>
          /\ pre.state = STATE_LINEAR => Ctx = LinearStep(pre, 0)
          /\ pre.state = STATE_NONLINEAR => Ctx = NonlinearStep(pre, 0)
          /\ \A i \in 1..Len(cmds) :
                cmds[i].cmd = IF i = 1
                                THEN [kind |-> "RR", val |-> Fmt2(ramp, RAMP_UNIT)]
                                ELSE [kind |-> "TT", val |-> Fmt2(temp, TEMP_UNIT)]
    /\ (state = STATE_HOLD /\ pc = "logic") =>
          /\ \A r \in RangeResults(nread) :
                HoldStep(Ctx, r, None) = HoldStep(Ctx, r, Some(0))
          /\ \A sl \in Slope10Results :
                HoldStep(Ctx, None, sl).state = STATE_HOLD

C18_Witness ==
    /\ s_raw = None /\ pc = "check" /\ nread = MIN_POINTS - 1
    /\ pre.state = STATE_NONLINEAR
    /\ e = Some(S_REF)
    /\ temp > pre.temp

\* C19: a tick that begins in COOL ends in DONE with ramp 0 and temp
\* START_TEMP and sends a ramp of 0; among the ticks that begin in HOLD or
\* COOL only the one that switches from HOLD to COOL sends a negative ramp,
\* the cool rate.
C19_CoolLastsOneTick ==
    /\ (pre.state = STATE_COOL /\ TickRan) =>
          /\ state = STATE_DONE /\ ramp = 0 /\ temp = START_TEMP
          /\ \A i \in 1..Len(cmds) :
                cmds[i].cmd.kind = "RR" => cmds[i].cmd.val = 0
    /\ (pre.state \in {STATE_HOLD, STATE_COOL} /\ TickRan) =>
          \A i \in 1..Len(cmds) :
             (cmds[i].cmd.kind = "RR" /\ cmds[i].cmd.val < 0) =>
                /\ pre.state = STATE_HOLD /\ state = STATE_COOL
                /\ cmds[i].cmd.val = -100
    /\ (state = STATE_COOL /\ TickRan) => pre.state = STATE_HOLD

C19_Witness ==
    /\ pre.state = STATE_COOL /\ pc = "check"
    /\ state = STATE_DONE
    /\ pre.ramp = COOL_RAMP
    /\ cmds[1].cmd = [kind |-> "RR", val |-> 0]

\* The process has not entered the control loop.
BeforeLoop ==
    /\ pc \in {"start", "crashed"}
    /\ cmds = <<>>
    /\ pre = Ctx
    /\ nread = 0
    /\ history = <<>>
    /\ state = STATE_LINEAR

\* C12 as stated: if the UV-Vis sensor or the T-App actuator cannot be found
\* at start-up, the process stops before the loop: no reading, no tick, no
\* command.
C12_StartupFailureFatal ==
    (~env.uvvis \/ ~env.element \/ ~env.tapp) => BeforeLoop

\* C12, amended: only a missing sensor (the UV-Vis window, or a numeric element
\* in it) stops the process before the loop, with no reading, no tick and no
\* command, so the loop is never entered without a connected sensor.  The
\* actuator is not looked for at start-up: with the T-App window missing and
\* the sensor found the loop runs, and every command of every tick fails.
C12_SensorStartupFatal ==
    /\ (~env.uvvis \/ ~env.element) => BeforeLoop
    /\ pc = "crashed" => (~env.uvvis \/ ~env.element)
    /\ (env.uvvis /\ env.element /\ ~env.tapp) =>
          \A i \in 1..Len(cmds) : ~cmds[i].ok

C12_Witness == pc = "crashed" /\ env.uvvis /\ ~env.element /\ env.tapp

\* C11: a read that yields no value appends nothing and leaves the Sample
\* Store as it was; the polling loop reads only while the period has not
\* elapsed and is left as soon as it has, whatever the number of readings;
\* and every period that is started is followed by the tick's state logic and
\* its two commands, also when every read failed and the window is empty.
C11_FailedReadHarmless ==
    /\ [][(pc = "polling" /\ pc' = "polling" /\ last_read' = None)
             => (history' = history /\ appended' = appended)]_vars
    /\ [][(pc = "polling" /\ pc' = "polling") => now - t0 < StorePeriod]_vars
    /\ [][(pc = "polling" /\ pc' = "logic") => now - t0 >= StorePeriod]_vars
    /\ [](pc = "check" =>
            /\ Len(cmds) = 2
            /\ temp = pre.temp + (FAST_RAMP \div RAMP_UNIT) * (TEMP_UNIT \div 2))
    /\ (pc = "polling") ~> (pc = "check")

C11_Witness ==
    /\ pc = "check"
    /\ nread = 0
    /\ history = <<>>
    /\ last_read = None
    /\ Len(cmds) = 2

\* C14: the store never holds more than its capacity; an append to a full
\* store drops exactly the oldest reading and puts the new one last, an
\* append to a store with room only puts the new one last, so the store is
\* always the most recent readings in the order they were read; and the
\* stored timestamps never decrease.
C14_BoundedFifoSorted ==
    /\ [](Len(history) <= StoreCap)
    /\ [](\A i \in 1..(Len(history) - 1) : history[i][1] <= history[i + 1][1])
    /\ [](LET k == Len(appended) - Len(history)
          IN  /\ k >= 0
              /\ history = [i \in 1..Len(history) |-> appended[k + i]])
    /\ [][appended' # appended =>
            history' = (IF Len(history) = StoreCap THEN Tail(history)
                                                   ELSE history)
                       \o <<appended'[Len(appended')]>>]_vars

C14_Witness ==
    /\ Len(history) = StoreCap
    /\ Len(appended) > StoreCap
    /\ history[1] = appended[Len(appended) - StoreCap + 1]

\* C20: with one reading at most per polling interval, the 10-minute
\* stability window spans fewer polling intervals than the store has places;
\* and in every state, those where the statistics of a tick are computed
\* included, the readings of the longest queried window number fewer than
\* the capacity and are all still in the store, in the order they were read.
C20_WindowNeverEvicted ==
    /\ STABILITY_WINDOW_MIN * 60 * POLLS_PER_SEC < HIST_MAXLEN
    /\ Len(WindowPoints(appended, now - StoreWindow)) < StoreCap
    /\ WindowPoints(history, now - StoreWindow)
         = WindowPoints(appended, now - StoreWindow)

C20_Witness ==
    /\ pc = "logic"
    /\ Len(appended) > StoreCap
    /\ Len(WindowPoints(history, now - StoreWindow)) = StoreWindow

\* The readings of the store that lie in the window of the last query.
InSlopeWindow == {i \in 1..Len(history) : history[i][1] >= now - SlopeSpan}

\* C15: slope_over_window gives no value when the window holds fewer than 6
\* readings, and none when all timestamps in the window are equal; it gives
\* a value when the window holds 6 readings or more whose timestamps are
\* not all equal.
C15_SlopeDefinedness ==
    pc = "slope_done" =>
      LET few  == Cardinality(InSlopeWindow) < 6
          flat == \A i, j \in InSlopeWindow : history[i][1] = history[j][1]
      IN  /\ few => win_slope = None
          /\ flat => win_slope = None
          /\ (~few /\ ~flat) => win_slope # None

C15_Witness ==
    /\ pc = "slope_done"
    /\ Cardinality(InSlopeWindow) = 6
    /\ Len(history) > 6
    /\ win_slope # None

====
